---------------------------- MODULE Spec2Model ----------------------------
(***************************************************************************)
(* Model of the cutout-mesh generator (scripts/generateCutoutMeshFile.py)  *)
(* and of the mesh-file parser (scripts/parseMeshFile.py).                 *)
(*                                                                         *)
(* Numbers.  Every length is a fixed-point number counted in half units    *)
(* (the integer 3 stands for 1.5).  element_size is 1 (0.5) or 2 (1.0), so *)
(* every quotient, product and comparison the code computes in floating    *)
(* point is exact here, and int(), round() and numpy.isclose are modelled  *)
(* by what they compute on such values.                                    *)
(*                                                                         *)
(* Text.  A character is a one-character string, a line or a file a        *)
(* sequence of characters; a file's lines are separated by "\n".           *)
(***************************************************************************)
EXTENDS Integers, Sequences, FiniteSets, TLC

VARIABLES
    \* generateCutoutMeshFile.main: its arguments
    element_size, outer_dims, expl_dims, cutout_dims, cutout_offset, fixed_coords,
    \* generateCutoutMeshFile.main: its locals and its position
    pc, nodes, node_section, element_section,
    \* the candidate cells whose corner lookup raised KeyError in generate_elements
    dropped,
    \* the mesh file: None while it does not exist, else its text
    content,
    \* parseMeshFile.main: its position and its locals
    ppc, node_lines, node_df, elmt_lines, elmt_df

gen_args == <<element_size, outer_dims, expl_dims, cutout_dims, cutout_offset, fixed_coords>>
gen_vars == <<pc, nodes, node_section, element_section, dropped>>
parse_vars == <<ppc, node_lines, node_df, elmt_lines, elmt_df>>
vars == <<gen_args, gen_vars, content, parse_vars>>

\* A Python value of a variable that is not always a table or a text: val is
\* the table (or text) when kind says there is one, and empty otherwise.
Value(kind, val) == [kind |-> kind, val |-> val]
None == Value("None", <<>>)
Unset == Value("unset", <<>>)
Array(rows) == Value("array", rows)

-----------------------------------------------------------------------------
(* Bounds of the model: the largest x and y extent in half units, and the   *)
(* largest depth in whole units.                                            *)
MaxX == 4
MaxY == 3
MaxZ == 2

-----------------------------------------------------------------------------
(* Arithmetic of the fixed-point lengths.                                   *)

Abs(a) == IF a < 0 THEN -a ELSE a

Max(a, b) == IF a >= b THEN a ELSE b

\* int(L): the integral part of a length; two half units make one unit.
IntTrunc(L) == (L \div 2) * 2

\* numpy.isclose(a, b): |a - b| <= atol + rtol*|b| with atol = 1e-8, rtol = 1e-5.
\* In half units |a - b|*10^8 <= 2 + 1000*|b|, which for integers a, b is
\* |a - b|*10^5 <= |b|.
isclose(a, b) == Abs(a - b) * 100000 <= Abs(b)

\* numpy.allclose(t, 0)
allclose_zero(t) == \A n \in 1..Len(t) : isclose(t[n], 0)

\* The test "no cutout specified" of lines 20, 117, 153 and 223.
no_cutout(cdims, coff) == allclose_zero(cdims) /\ allclose_zero(coff)

\* is_int(L/element_size): abs(x - round(x)) <= 1e-10; the quotient is exact.
is_int(L, es) == L % es = 0

\* round(x) of Python 3 for x = L/es: to the nearest integer, a tie to the even one.
PyRound(L, es) ==
    LET q == L \div es
        r == L % es
    IN  IF 2 * r < es THEN q
        ELSE IF 2 * r > es THEN q + 1
        ELSE IF q % 2 = 0 THEN q ELSE q + 1

\* to_index(L) == int(round(L/element_size))
to_index(L, es) == PyRound(L, es)

-----------------------------------------------------------------------------
(* Loops.                                                                   *)

\* range(a, b) as a sequence
PyRange(a, b) == [n \in 1..Max(b - a, 0) |-> a + n - 1]

\* the concatenation of ss[lo], ..., ss[hi]
RECURSIVE FlattenRange(_, _, _)
FlattenRange(ss, lo, hi) ==
    IF lo > hi THEN <<>>
    ELSE IF lo = hi THEN ss[lo]
    ELSE LET mid == (lo + hi) \div 2
         IN  FlattenRange(ss, lo, mid) \o FlattenRange(ss, mid + 1, hi)

\* the concatenation of the sequences of ss
Flatten(ss) == FlattenRange(ss, 1, Len(ss))

\* for z in zs: for y in ys: for x in xs: the grid indices <<x, y, z>> in loop order
Grid(zs, ys, xs) ==
    LET nx == Len(xs)
        ny == Len(ys)
    IN  [n \in 1..(Len(zs) * ny * nx) |->
            << xs[((n - 1) % nx) + 1],
               ys[(((n - 1) \div nx) % ny) + 1],
               zs[((n - 1) \div (nx * ny)) + 1] >>]

-----------------------------------------------------------------------------
(* generate_nodes                                                           *)

\* add_node(xi, yi, zi): the coordinates of grid index g scaled by element_size
add_node(g, es) == << g[1] * es, g[2] * es, g[3] * es >>

\* node_regions without the row y = nyf_c of the region above the cutout
\* (lines 93-95 left out)
node_regions_without_cutout_row(nxf, nyf, nzf, nxf_e, nyf_e, nzf_e, nxi_c_o, nyf_c) ==
       Grid(PyRange(0, nzf_e + 1), PyRange(0, nyf_e + 1), PyRange(0, nxf_e + 1))
    \o Grid(PyRange(0, nzf + 1), PyRange(nyf_e + 1, nyf_c + 1), PyRange(0, nxf_e + 1))
    \o Grid(PyRange(0, nzf + 1), PyRange(nyf_c + 1, nyf + 1), PyRange(0, nxf_e + 1))
    \o Grid(PyRange(0, nzf + 1), PyRange(0, nyf_e + 1), PyRange(nxf_e + 1, nxi_c_o + 1))
    \o Grid(PyRange(0, nzf + 1), PyRange(nyf_e + 1, nyf_c + 1), PyRange(nxf_e + 1, nxi_c_o + 1))
    \o Grid(PyRange(0, nzf + 1), PyRange(nyf_c + 1, nyf + 1), PyRange(nxf_e + 1, nxi_c_o + 1))
    \o Grid(PyRange(0, nzf + 1), PyRange(nyf_c + 1, nyf + 1), PyRange(nxi_c_o + 1, nxf + 1))

\* The grid indices in emission order: the seven region loops of lines 55-99.
node_regions(nxf, nyf, nzf, nxf_e, nyf_e, nzf_e, nxi_c_o, nyf_c) ==
       \* explosive region, including boundaries
       Grid(PyRange(0, nzf_e + 1), PyRange(0, nyf_e + 1), PyRange(0, nxf_e + 1))
       \* region above explosive region to cutout height
    \o Grid(PyRange(0, nzf + 1), PyRange(nyf_e + 1, nyf_c + 1), PyRange(0, nxf_e + 1))
       \* region further above
    \o Grid(PyRange(0, nzf + 1), PyRange(nyf_c + 1, nyf + 1), PyRange(0, nxf_e + 1))
       \* region to the right of explosive region
    \o Grid(PyRange(0, nzf + 1), PyRange(0, nyf_e + 1), PyRange(nxf_e + 1, nxi_c_o + 1))
       \* region above to cutout height
    \o Grid(PyRange(0, nzf + 1), PyRange(nyf_e + 1, nyf_c + 1), PyRange(nxf_e + 1, nxi_c_o + 1))
       \* region further above
    \o Grid(PyRange(0, nzf + 1), PyRange(nyf_c + 1, nyf + 1), PyRange(nxf_e + 1, nxi_c_o + 1))
       \* region above the cutout: per z, the row y = nyf_c, then the rows above it
    \o Flatten([n \in 1..(nzf + 1) |->
            Grid(<<n - 1>>, <<nyf_c>>, PyRange(nxi_c_o + 1, nxf + 1))
         \o Grid(<<n - 1>>, PyRange(nyf_c + 1, nyf + 1), PyRange(nxi_c_o + 1, nxf + 1))])

\* generate_nodes: None when the explosive region does not hold a whole number of
\* elements in x and y, else the rows <<node ID, x, y, z>>.
generate_nodes(es, outer, expl, cdims, coff) ==
    LET xi_cutout_offset == IF no_cutout(cdims, coff) THEN outer[1] ELSE coff[1]
        yf_cutout == IF no_cutout(cdims, coff) THEN outer[2] ELSE cdims[2]
        grid == node_regions(to_index(outer[1], es), to_index(outer[2], es),
                             to_index(outer[3], es),
                             to_index(expl[1], es), to_index(expl[2], es),
                             to_index(expl[3], es),
                             to_index(xi_cutout_offset, es), to_index(yf_cutout, es))
    IN  IF ~(is_int(expl[1], es) /\ is_int(expl[2], es))
        THEN None
        ELSE Array([n \in 1..Len(grid) |-> <<n>> \o add_node(grid[n], es)])

-----------------------------------------------------------------------------
(* add_constraints                                                          *)

\* node_tc with the two edge rules in the other order (lines 127-128 before
\* lines 123-124)
node_tc_edges_swapped(x, y, z, xf, yf, xi_cutout_offset, yf_cutout, fixed) ==
    LET tc1 == IF isclose(x, 0)
                  \/ (isclose(x, xi_cutout_offset) /\ y < yf_cutout /\ ~isclose(x, xf))
               THEN 6 ELSE 3
        tc2 == IF isclose(y, 0)
                  \/ (isclose(y, yf_cutout) /\ x > xi_cutout_offset /\ ~isclose(y, yf))
               THEN 5 ELSE tc1
    IN  IF \E f \in 1..Len(fixed) :
              /\ isclose(x, fixed[f][1])
              /\ isclose(y, fixed[f][2])
              /\ isclose(z, fixed[f][3])
        THEN 7 ELSE tc2

\* The tc of one node: 3, then the two edge rules, then the fixed coordinates,
\* each assignment overriding the one before (lines 121-134).
node_tc(x, y, z, xf, yf, xi_cutout_offset, yf_cutout, fixed) ==
    LET tc0 == 3
        tc1 == IF isclose(y, 0)
                  \/ (isclose(y, yf_cutout) /\ x > xi_cutout_offset /\ ~isclose(y, yf))
               THEN 5 ELSE tc0
        tc2 == IF isclose(x, 0)
                  \/ (isclose(x, xi_cutout_offset) /\ y < yf_cutout /\ ~isclose(x, xf))
               THEN 6 ELSE tc1
        tc3 == IF \E f \in 1..Len(fixed) :
                     /\ isclose(x, fixed[f][1])
                     /\ isclose(y, fixed[f][2])
                     /\ isclose(z, fixed[f][3])
               THEN 7 ELSE tc2
    IN  tc3

\* add_constraints: the rows <<node ID, x, y, z, tc, rc>>
add_constraints(ns, outer, cdims, coff, fixed) ==
    LET xi_cutout_offset == IF no_cutout(cdims, coff) THEN outer[1] ELSE coff[1]
        yf_cutout == IF no_cutout(cdims, coff) THEN outer[2] ELSE cdims[2]
    IN  Array([n \in 1..Len(ns) |->
            ns[n] \o << node_tc(ns[n][2], ns[n][3], ns[n][4], outer[1], outer[2],
                                xi_cutout_offset, yf_cutout, fixed), 7 >>])

-----------------------------------------------------------------------------
(* generate_elements                                                        *)

\* np.rint(c*scale + tol): the grid index nearest to coordinate c; the bias tol
\* sends an exact half step upwards.
grid_index(c, es) == (2 * c + es) \div (2 * es)

\* The key of a node row in index_to_id (lines 167-175)
node_key(row, es) ==
    << grid_index(row[2], es), grid_index(row[3], es), grid_index(row[4], es) >>

\* index_to_id: the dictionary built by lines 173-176; of two rows with the same
\* key the later one stays.  (\o <<>> and @@ <<>> add nothing: they make TLC
\* tabulate the keys and the dictionary once instead of at every lookup.)
index_to_id(ns, es) ==
    LET key == [n \in 1..Len(ns) |-> node_key(ns[n], es)] \o <<>>
        last(k) == LET at == {n \in 1..Len(ns) : key[n] = k}
                   IN  CHOOSE n \in at : \A m \in at : m <= n
    IN  [k \in {key[n] : n \in 1..Len(ns)} |-> ns[last(k)][1]] @@ <<>>

\* The 8 vertices of cell <<i, j, k>>, bottom face then top face (lines 197-200)
cell_vertices(c) ==
    << <<c[1], c[2], c[3]>>, <<c[1] + 1, c[2], c[3]>>,
       <<c[1] + 1, c[2] + 1, c[3]>>, <<c[1], c[2] + 1, c[3]>>,
       <<c[1], c[2], c[3] + 1>>, <<c[1] + 1, c[2], c[3] + 1>>,
       <<c[1] + 1, c[2] + 1, c[3] + 1>>, <<c[1], c[2] + 1, c[3] + 1>> >>

\* element_node_IDs(i, j, k): the 8 node IDs, or (for None, on a KeyError) no ID
element_node_IDs(c, map) ==
    LET vs == cell_vertices(c)
    IN  IF \A v \in 1..8 : vs[v] \in DOMAIN map
        THEN [v \in 1..8 |-> map[vs[v]]]
        ELSE <<>>

part_nonexpl == 1
part_expl == 2

\* Rows <<part>> \o cell for the cells of g
with_part(part, g) == [n \in 1..Len(g) |-> <<part>> \o g[n]]

\* The candidate cells <<part ID, i, j, k>> in the order the loops of lines
\* 204-248 visit them; cutout tells which branch of line 223 runs.
element_candidates(nxf, nyf, nzf, nxf_e, nyf_e, nzf_e, nxi_c_o, nyf_c, cutout) ==
       \* explosive region
       with_part(part_expl,
           Grid(PyRange(0, nzf_e), PyRange(0, nyf_e), PyRange(0, nxf_e)))
       \* region above explosive region
    \o with_part(part_nonexpl,
           Grid(PyRange(0, nzf), PyRange(nyf_e, nyf), PyRange(0, nxf_e)))
       \* region to the right of explosive region
    \o with_part(part_nonexpl,
           IF ~cutout
           THEN Grid(PyRange(0, nzf), PyRange(0, nyf), PyRange(nxf_e, nxf))
           ELSE Flatten([n \in 1..(Max(nzf, 0) * Max(nyf, 0)) |->
                    LET z == (n - 1) \div nyf
                        y == (n - 1) % nyf
                        x_end == IF y >= nyf_c
                                 THEN Max(nxf_e - 1, nxi_c_o - 1)
                                 ELSE nxf - 1
                    IN  Grid(<<z>>, <<y>>, PyRange(nxf_e, x_end + 1))]))
       \* region above cutout
    \o with_part(part_nonexpl,
           IF nyf_c < nyf /\ nxi_c_o < nxf
           THEN Grid(PyRange(0, nzf), PyRange(nyf_c, nyf), PyRange(nxi_c_o, nxf))
           ELSE <<>>)

\* The candidate cells of one call of generate_elements
candidates_of(es, outer, expl, cdims, coff) ==
    LET xf == IntTrunc(outer[1])
        yf == IntTrunc(outer[2])
        zf == IntTrunc(outer[3])
        xf_expl == IntTrunc(expl[1])
        yf_expl == IntTrunc(expl[2])
        zf_expl == IntTrunc(expl[3])
        xi_cutout_offset == IF no_cutout(cdims, coff) THEN xf ELSE IntTrunc(coff[1])
        yf_cutout == IF no_cutout(cdims, coff) THEN yf ELSE IntTrunc(cdims[2])
    IN  element_candidates(to_index(xf, es), to_index(yf, es), to_index(zf, es),
                           to_index(xf_expl, es), to_index(yf_expl, es),
                           to_index(zf_expl, es),
                           to_index(xi_cutout_offset, es), to_index(yf_cutout, es),
                           ~no_cutout(cdims, coff))

ValueError == Value("ValueError", <<>>)

\* generate_elements: elements is the table of rows <<element ID, part ID,
\* n1..n8>>, dropped the candidate cells <<i, j, k>> skipped on a KeyError
\* (lines 201-202, 209-210).  With no element at all np.hstack of line 252 is
\* given a (0,1) and a (0,) array and raises ValueError.
generate_elements(ns, es, outer, expl, cdims, coff) ==
    LET map == index_to_id(ns, es)
        cand == candidates_of(es, outer, expl, cdims, coff)
        ids == [n \in 1..Len(cand) |->
                   element_node_IDs(<<cand[n][2], cand[n][3], cand[n][4]>>, map)] \o <<>>
        kept == SelectSeq([n \in 1..Len(cand) |-> n], LAMBDA n : ids[n] # <<>>)
    IN  [elements |->
            IF kept = <<>>
            THEN ValueError
            ELSE Array([n \in 1..Len(kept) |-> <<n, cand[kept[n]][1]>> \o ids[kept[n]]]),
         dropped |->
            {<<cand[n][2], cand[n][3], cand[n][4]>> :
                 n \in {m \in 1..Len(cand) : ids[m] = <<>>}}]

-----------------------------------------------------------------------------
(* Text                                                                     *)

DigitChars == <<"0", "1", "2", "3", "4", "5", "6", "7", "8", "9">>
DIGITS == {DigitChars[n] : n \in 1..10}
\* the characters \s matches
WS == {" ", "\t"}
\* the characters [-+0-9.Ee] matches
NUMCHARS == DIGITS \cup {"-", "+", ".", "E", "e"}

DigitChar(d) == DigitChars[d + 1]
DigitVal(c) == CHOOSE d \in 0..9 : DigitChars[d + 1] = c

Spaces(n) == [m \in 1..n |-> " "]
Zeros(n) == [m \in 1..n |-> "0"]

\* the decimal digits of n >= 0
RECURSIVE Digits(_)
Digits(n) == IF n < 10 THEN <<DigitChar(n)>> ELSE Digits(n \div 10) \o <<DigitChar(n % 10)>>

\* str(n)
IntText(n) == IF n < 0 THEN <<"-">> \o Digits(-n) ELSE Digits(n)

\* f"{n:8d}": right-justified in 8 columns, wider when n needs more
FmtInt8(n) == Spaces(8 - Len(IntText(n))) \o IntText(n)

\* f"{x:.9E}" of the length v (half units): one digit, a point, nine digits, the
\* exponent with its sign and two digits.  |v|*5 is the value in tenths; it
\* has at most ten digits, so no digit is rounded away.
FmtSci9(v) ==
    LET d == Digits(Abs(v) * 5)
        e == IF v = 0 THEN 0 ELSE Len(d) - 2
        m == d \o Zeros(10 - Len(d))
    IN  (IF v < 0 THEN <<"-">> ELSE <<>>)
        \o <<m[1], ".">> \o SubSeq(m, 2, 10)
        \o <<"E", IF e < 0 THEN "-" ELSE "+">>
        \o Zeros(2 - Len(Digits(Abs(e)))) \o Digits(Abs(e))

\* A node row as written by line 266
node_line(row) ==
    FmtInt8(row[1]) \o <<" ">> \o FmtSci9(row[2]) \o <<" ">> \o FmtSci9(row[3])
    \o <<" ">> \o FmtSci9(row[4]) \o FmtInt8(row[5]) \o FmtInt8(row[6]) \o <<"\n">>

\* An element row as written by line 271
element_line(row) == Flatten([n \in 1..Len(row) |-> FmtInt8(row[n])]) \o <<"\n">>

KW_NODE == <<"*", "N", "O", "D", "E">>
KW_ELEMENT_SOLID ==
    <<"*", "E", "L", "E", "M", "E", "N", "T", "_", "S", "O", "L", "I", "D">>
KW_END == <<"*", "E", "N", "D">>

\* format_sections_into_file: the text written to output_path
format_sections_into_file(nsec, esec) ==
    KW_NODE \o <<"\n">>
    \o Flatten([n \in 1..Len(nsec) |-> node_line(nsec[n])])
    \o KW_ELEMENT_SOLID \o <<"\n">>
    \o Flatten([n \in 1..Len(esec) |-> element_line(esec[n])])
    \o KW_END \o <<"\n">>

-----------------------------------------------------------------------------
(* generateCutoutMeshFile.main                                              *)

\* The extents an argument of main takes: any number of half units in x and y,
\* a whole number of units in z.
Extents == (1..MaxX) \X (1..MaxY) \X {2 * k : k \in 1..MaxZ}

\* The arguments of main: the outer region, an explosive region inside it, and
\* either no cutout (all zero) and at most the origin fixed, or a cutout of
\* height cy < yf from x = ox > 0 to the right edge and at most the origin and
\* the two ends of the cutout's left edge fixed.
GenArgs ==
    /\ element_size \in {1, 2}
    /\ outer_dims \in Extents
    /\ expl_dims \in {e \in Extents : \A a \in 1..3 : e[a] <= outer_dims[a]}
    /\ \/ /\ cutout_dims = <<0, 0, 0>>
          /\ cutout_offset = <<0, 0, 0>>
          /\ fixed_coords \in { <<>>, << <<0, 0, 0>> >> }
       \/ \E ox \in 1..(outer_dims[1] - 1), cy \in 1..(outer_dims[2] - 1) :
             /\ cutout_dims = <<outer_dims[1] - ox, cy, outer_dims[3]>>
             /\ cutout_offset = <<ox, 0, 0>>
             /\ fixed_coords \in { <<>>, << <<0, 0, 0>>, <<ox, 0, 0>>, <<ox, cy, 0>> >> }

ParserIdle ==
    /\ ppc = "idle"
    /\ node_lines = <<>>
    /\ node_df = Unset
    /\ elmt_lines = <<>>
    /\ elmt_df = Unset

Init ==
    /\ GenArgs
    /\ pc = "generate_nodes"
    /\ nodes = Unset
    /\ node_section = Unset
    /\ element_section = Unset
    /\ dropped = {}
    /\ content = None
    /\ ParserIdle

\* line 278
MainGenerateNodes ==
    /\ pc = "generate_nodes"
    /\ nodes' = generate_nodes(element_size, outer_dims, expl_dims, cutout_dims, cutout_offset)
    /\ pc' = "add_constraints"
    /\ UNCHANGED <<gen_args, node_section, element_section, dropped, content, parse_vars>>

\* line 279; nodes[:,1:4] of line 112 raises TypeError when nodes is None
MainAddConstraints ==
    /\ pc = "add_constraints"
    /\ IF nodes = None
       THEN /\ pc' = "TypeError"
            /\ UNCHANGED node_section
       ELSE /\ node_section' = add_constraints(nodes.val, outer_dims, cutout_dims,
                                               cutout_offset, fixed_coords)
            /\ pc' = "generate_elements"
    /\ UNCHANGED <<gen_args, nodes, element_section, dropped, content, parse_vars>>

\* line 280
MainGenerateElements ==
    /\ pc = "generate_elements"
    /\ LET r == generate_elements(node_section.val, element_size, outer_dims, expl_dims,
                                  cutout_dims, cutout_offset)
       IN  /\ IF r.elements = ValueError
              THEN /\ pc' = "ValueError"
                   /\ UNCHANGED element_section
              ELSE /\ element_section' = r.elements
                   /\ pc' = "format_sections_into_file"
           /\ dropped' = r.dropped
    /\ UNCHANGED <<gen_args, nodes, node_section, content, parse_vars>>

\* lines 282-285
MainFormatSectionsIntoFile ==
    /\ pc = "format_sections_into_file"
    /\ content' = Value("file", format_sections_into_file(node_section.val,
                                                           element_section.val))
    /\ pc' = "done"
    /\ UNCHANGED <<gen_args, nodes, node_section, element_section, dropped, parse_vars>>

-----------------------------------------------------------------------------
(* parseMeshFile: extract                                                   *)

\* the first index >= i of s whose character is not in set, Len(s) + 1 if none
RunEnd(s, i, set) ==
    LET out == {j \in i..Len(s) : s[j] \notin set}
    IN  IF out = {} THEN Len(s) + 1 ELSE CHOOSE j \in out : \A h \in out : j <= h

\* content.splitlines(): the lines between the line breaks; a line break at the
\* very end opens no further line
RECURSIVE splitlines(_)
splitlines(text) ==
    IF text = <<>> THEN <<>>
    ELSE LET brk == {j \in 1..Len(text) : text[j] = "\n"}
             k == IF brk = {} THEN Len(text) + 1
                  ELSE CHOOSE j \in brk : \A h \in brk : j <= h
         IN  <<SubSeq(text, 1, k - 1)>> \o splitlines(SubSeq(text, k + 1, Len(text)))

\* line.strip()
strip(line) ==
    LET ink == {j \in 1..Len(line) : line[j] \notin WS}
    IN  IF ink = {} THEN <<>>
        ELSE SubSeq(line, CHOOSE j \in ink : \A h \in ink : j <= h,
                          CHOOSE j \in ink : \A h \in ink : j >= h)

LowerLetters == <<"a", "b", "c", "d", "e", "f", "g", "h", "i", "j", "k", "l", "m",
                  "n", "o", "p", "q", "r", "s", "t", "u", "v", "w", "x", "y", "z">>
UpperLetters == <<"A", "B", "C", "D", "E", "F", "G", "H", "I", "J", "K", "L", "M",
                  "N", "O", "P", "Q", "R", "S", "T", "U", "V", "W", "X", "Y", "Z">>

\* s.upper()
upper(s) ==
    [n \in 1..Len(s) |->
        IF \E a \in 1..26 : LowerLetters[a] = s[n]
        THEN UpperLetters[CHOOSE a \in 1..26 : LowerLetters[a] = s[n]]
        ELSE s[n]]

\* s.startswith(prefix)
startswith(s, prefix) ==
    Len(s) >= Len(prefix) /\ SubSeq(s, 1, Len(prefix)) = prefix

STAR == <<"*">>

\* The loop of lines 13-20 from line number n on, with the flag reading
RECURSIVE extract_from(_, _, _, _)
extract_from(lines, n, reading, keyword) ==
    IF n > Len(lines) THEN <<>>
    ELSE LET line == lines[n]
         IN  IF startswith(strip(line), STAR)
             THEN extract_from(lines, n + 1,
                               startswith(upper(strip(line)), keyword), keyword)
             ELSE IF reading /\ strip(line) # <<>>
             THEN <<line>> \o extract_from(lines, n + 1, reading, keyword)
             ELSE IF reading /\ strip(line) = <<>>
             THEN <<>>
             ELSE extract_from(lines, n + 1, reading, keyword)

\* extract(content, keyword)
extract(text, keyword) == extract_from(splitlines(text), 1, FALSE, keyword)

-----------------------------------------------------------------------------
(* parseMeshFile: parse_nodes and parse_elements                            *)

\* int(ds) of a string of digits
RECURSIVE DigitsToInt(_)
DigitsToInt(ds) ==
    IF ds = <<>> THEN 0
    ELSE DigitsToInt(SubSeq(ds, 1, Len(ds) - 1)) * 10 + DigitVal(ds[Len(ds)])

\* A decimal number m * 10^e, with m not a multiple of 10 unless it is 0: equal
\* numbers have equal representations.
RECURSIVE Decimal(_, _)
Decimal(m, e) ==
    IF m = 0 THEN [m |-> 0, e |-> 0]
    ELSE IF m % 10 = 0 THEN Decimal(m \div 10, e + 1)
    ELSE [m |-> m, e |-> e]

\* The float whose value is the length v (half units): v*5 tenths
FloatOf(v) == Decimal(v * 5, -1)

\* ds without its zeros at the end
RECURSIVE StripZeros(_)
StripZeros(ds) ==
    IF ds # <<>> /\ ds[Len(ds)] = "0" THEN StripZeros(SubSeq(ds, 1, Len(ds) - 1)) ELSE ds

\* float(tok): [sign] digits [. [digits]] or [sign] . digits, then optionally e or
\* E, [sign] and digits.  ok is FALSE where Python raises ValueError, and val
\* is the number read.
parse_float(tok) ==
    LET n == Len(tok)
        signed == n >= 1 /\ tok[1] \in {"+", "-"}
        i1 == IF signed THEN 2 ELSE 1
        i2 == RunEnd(tok, i1, DIGITS)
        point == i2 <= n /\ tok[i2] = "."
        i3 == IF point THEN RunEnd(tok, i2 + 1, DIGITS) ELSE i2
        int_part == SubSeq(tok, i1, i2 - 1)
        frac_part == IF point THEN SubSeq(tok, i2 + 1, i3 - 1) ELSE <<>>
        has_exp == i3 <= n /\ tok[i3] \in {"E", "e"}
        esigned == has_exp /\ i3 + 1 <= n /\ tok[i3 + 1] \in {"+", "-"}
        i4 == IF esigned THEN i3 + 2 ELSE i3 + 1
        i5 == IF has_exp THEN RunEnd(tok, i4, DIGITS) ELSE i3
        exp_abs == IF has_exp THEN DigitsToInt(SubSeq(tok, i4, i5 - 1)) ELSE 0
        exp == IF esigned /\ tok[i3 + 1] = "-" THEN -exp_abs ELSE exp_abs
        digits == int_part \o frac_part
        kept == StripZeros(digits)
        mant == DigitsToInt(kept)
        ok == /\ digits # <<>>
              /\ has_exp => i5 > i4
              /\ i5 = n + 1
    IN  [ok |-> ok,
         val |-> IF ~ok THEN Decimal(0, 0)
                 ELSE Decimal(IF signed /\ tok[1] = "-" THEN -mant ELSE mant,
                              exp - Len(frac_part) + (Len(digits) - Len(kept)))]

\* pattern.match(line) of lines 26-33: the six groups, or (for None) no group.
\* \s and the two character classes are disjoint and every group is followed
\* by \s+, so each group is the whole run of its class; the last group is
\* followed by nothing and takes the digits the line has there.
node_pattern_match(line) ==
    LET p0 == RunEnd(line, 1, WS)
        p1 == RunEnd(line, p0, DIGITS)
        p2 == RunEnd(line, p1, WS)
        p3 == RunEnd(line, p2, NUMCHARS)
        p4 == RunEnd(line, p3, WS)
        p5 == RunEnd(line, p4, NUMCHARS)
        p6 == RunEnd(line, p5, WS)
        p7 == RunEnd(line, p6, NUMCHARS)
        p8 == RunEnd(line, p7, WS)
        p9 == RunEnd(line, p8, DIGITS)
        p10 == RunEnd(line, p9, WS)
        p11 == RunEnd(line, p10, DIGITS)
    IN  IF /\ p1 > p0 /\ p2 > p1 /\ p3 > p2 /\ p4 > p3 /\ p5 > p4 /\ p6 > p5
           /\ p7 > p6 /\ p8 > p7 /\ p9 > p8 /\ p10 > p9 /\ p11 > p10
        THEN << SubSeq(line, p0, p1 - 1), SubSeq(line, p2, p3 - 1),
                SubSeq(line, p4, p5 - 1), SubSeq(line, p6, p7 - 1),
                SubSeq(line, p8, p9 - 1), SubSeq(line, p10, p11 - 1) >>
        ELSE <<>>

\* parse_nodes: the table of rows <<Node ID, X, Y, Z, TC, RC>> of the lines that
\* match; df.astype of lines 41-48 raises ValueError when float() refuses a group.
parse_nodes(section) ==
    LET groups == [n \in 1..Len(section) |-> node_pattern_match(section[n])] \o <<>>
        data == SelectSeq(groups, LAMBDA g : g # <<>>)
        floats_ok == \A n \in 1..Len(data) :
                        \A c \in 2..4 : parse_float(data[n][c]).ok
    IN  IF ~floats_ok
        THEN ValueError
        ELSE Array([n \in 1..Len(data) |->
                 << DigitsToInt(data[n][1]),
                    parse_float(data[n][2]).val,
                    parse_float(data[n][3]).val,
                    parse_float(data[n][4]).val,
                    DigitsToInt(data[n][5]),
                    DigitsToInt(data[n][6]) >>])

\* re.findall(r'\d+', line) from index i on: the maximal runs of digits
RECURSIVE findall_digits(_, _)
findall_digits(line, i) ==
    LET a == RunEnd(line, i, {line[j] : j \in 1..Len(line)} \ DIGITS)
        b == RunEnd(line, a, DIGITS)
    IN  IF a > Len(line) THEN <<>>
        ELSE <<SubSeq(line, a, b - 1)>> \o findall_digits(line, b)

\* parse_elements: the table of rows <<Element ID, Part ID, N1..N8>> of the lines
\* that hold exactly 10 integers
parse_elements(section) ==
    LET found == [n \in 1..Len(section) |-> findall_digits(section[n], 1)] \o <<>>
        matches == SelectSeq(found, LAMBDA f : Len(f) = 10)
    IN  Array([n \in 1..Len(matches) |->
            [c \in 1..10 |-> DigitsToInt(matches[n][c])]])

-----------------------------------------------------------------------------
(* parseMeshFile.main                                                       *)

\* lines 66-70
MainExtractNodes ==
    /\ ppc = "extract_nodes"
    /\ content.kind = "file"
    /\ node_lines' = extract(content.val, KW_NODE)
    /\ ppc' = "parse_nodes"
    /\ UNCHANGED <<gen_args, gen_vars, content, node_df, elmt_lines, elmt_df>>

\* lines 71-72
MainParseNodes ==
    /\ ppc = "parse_nodes"
    /\ IF parse_nodes(node_lines) = ValueError
       THEN /\ ppc' = "ValueError"
            /\ UNCHANGED node_df
       ELSE /\ node_df' = parse_nodes(node_lines)
            /\ ppc' = "extract_elements"
    /\ UNCHANGED <<gen_args, gen_vars, content, node_lines, elmt_lines, elmt_df>>

\* line 75
MainExtractElements ==
    /\ ppc = "extract_elements"
    /\ elmt_lines' = extract(content.val, KW_ELEMENT_SOLID)
    /\ ppc' = "parse_elements"
    /\ UNCHANGED <<gen_args, gen_vars, content, node_lines, node_df, elmt_df>>

\* lines 76-77
MainParseElements ==
    /\ ppc = "parse_elements"
    /\ elmt_df' = parse_elements(elmt_lines)
    /\ ppc' = "done"
    /\ UNCHANGED <<gen_args, gen_vars, content, node_lines, node_df, elmt_lines>>

Next ==
    \/ MainGenerateNodes
    \/ MainAddConstraints
    \/ MainGenerateElements
    \/ MainFormatSectionsIntoFile

Spec == Init /\ [][Next]_vars

-----------------------------------------------------------------------------
(* The codec on its own: format_sections_into_file applied to rows of a mesh *)
(* of any size, then parseMeshFile.main on the file.                         *)

\* the most rows of a section
MaxRows == 2

\* IDs a mesh gives its nodes and elements: IDs run from 1 to the number of rows,
\* and nothing bounds the size of a mesh.
IdSamples == {1, 99999, 9999995, 10000000}

\* Consecutive node rows of a mesh: IDs from id on, on a line of the grid
NodeRows(k, id, es, x, z, tc) ==
    [n \in 1..k |-> <<id + n - 1, x + (n - 1) * es, x, z, tc, 7>>]

\* Consecutive element rows of a mesh whose nodes are numbered along x, then y
\* (2 nodes further), then z (6 nodes further): IDs from id on, first vertex b
ElementRows(k, id, part, b) ==
    [n \in 1..k |->
        LET v == b + n - 1
        IN  <<id + n - 1, part, v, v + 1, v + 3, v + 2, v + 6, v + 7, v + 9, v + 8>>]

InitCodec ==
    /\ element_size \in {1, 2}
    /\ outer_dims = <<0, 0, 0>>
    /\ expl_dims = <<0, 0, 0>>
    /\ cutout_dims = <<0, 0, 0>>
    /\ cutout_offset = <<0, 0, 0>>
    /\ fixed_coords = <<>>
    /\ pc = "format_sections_into_file"
    /\ nodes = Unset
    /\ \E k \in 1..MaxRows, id \in {1, 10000000}, x \in {0, 3, 20}, tc \in {3, 7} :
          node_section = Array(NodeRows(k, id, element_size, x, 2, tc))
    /\ \E k \in 1..MaxRows, id \in {1, 10000000}, part \in {part_nonexpl, part_expl},
          b \in IdSamples :
          element_section = Array(ElementRows(k, id, part, b))
    /\ dropped = {}
    /\ content = None
    /\ ppc = "extract_nodes"
    /\ node_lines = <<>>
    /\ node_df = Unset
    /\ elmt_lines = <<>>
    /\ elmt_df = Unset

ParserNext ==
    \/ MainExtractNodes
    \/ MainParseNodes
    \/ MainExtractElements
    \/ MainParseElements

NextCodec ==
    \/ MainFormatSectionsIntoFile
    \/ ParserNext

SpecCodec == InitCodec /\ [][NextCodec]_vars

-----------------------------------------------------------------------------
(* parseMeshFile.main on any file: up to MaxLines lines, each a section     *)
(* header, a blank line, a node line (well-formed or with a malformed       *)
(* number) or an element line.                                              *)

MaxLines == 4

KW_NODE_SCALAR == KW_NODE \o <<"_", "S", "C", "A", "L", "A", "R">>
KW_PART == <<"*", "P", "A", "R", "T">>

\* the words of ws, each followed by one blank, without the last blank
Words(ws) ==
    LET t == Flatten([n \in 1..Len(ws) |-> ws[n] \o <<" ">>])
    IN  SubSeq(t, 1, Len(t) - 1)

\* a line as format_sections_into_file writes it, without its line break
Written(line) == SubSeq(line, 1, Len(line) - 1)

LineSamples ==
    { KW_NODE, KW_NODE_SCALAR, KW_PART, KW_ELEMENT_SOLID,
      <<>>,
      Written(node_line(<<1, 0, 2, 0, 3, 7>>)),
      Written(node_line(<<2, 3, 0, 2, 5, 7>>)),
      Words(<< <<"3">>, <<"1", ".", "2", ".", "3">>, <<"0">>, <<"0">>, <<"3">>, <<"7">> >>),
      Words(<< <<"4">>, <<"0">>, <<"1", "E">>, <<"0">>, <<"3">>, <<"7">> >>),
      Written(element_line(<<1, 2, 1, 2, 4, 3, 5, 6, 8, 7>>)) }

RECURSIVE SeqsUpTo(_, _)
SeqsUpTo(S, n) ==
    IF n = 0 THEN {<<>>}
    ELSE LET shorter == SeqsUpTo(S, n - 1)
         IN  shorter \cup {Append(q, x) : q \in {r \in shorter : Len(r) = n - 1}, x \in S}

InitParser ==
    /\ element_size = 1
    /\ outer_dims = <<0, 0, 0>>
    /\ expl_dims = <<0, 0, 0>>
    /\ cutout_dims = <<0, 0, 0>>
    /\ cutout_offset = <<0, 0, 0>>
    /\ fixed_coords = <<>>
    /\ pc = "idle"
    /\ nodes = Unset
    /\ node_section = Unset
    /\ element_section = Unset
    /\ dropped = {}
    /\ \E lines \in SeqsUpTo(LineSamples, MaxLines) :
          content = Value("file", Flatten([n \in 1..Len(lines) |-> lines[n] \o <<"\n">>]))
    /\ ppc = "extract_nodes"
    /\ node_lines = <<>>
    /\ node_df = Unset
    /\ elmt_lines = <<>>
    /\ elmt_df = Unset

SpecParser == InitParser /\ [][ParserNext]_vars

-----------------------------------------------------------------------------
(* Claims about the codec and the parser                                    *)

\* the node table that holds the in-memory node rows: the same IDs, numbers and
\* codes
TableOfNodes(rows) ==
    [n \in 1..Len(rows) |->
        << rows[n][1], FloatOf(rows[n][2]), FloatOf(rows[n][3]), FloatOf(rows[n][4]),
           rows[n][5], rows[n][6] >>]

\* C2 (SpecCodec): round trip.  Once the written file is parsed, the parse has
\* not raised, the node table has a row for every in-memory node row with the
\* same ID, coordinates, tc and rc, and the element table a row for every
\* in-memory element row with the same element ID, part ID and 8 vertex IDs.
C2_RoundTrip ==
    /\ ppc # "ValueError"
    /\ ppc \in {"extract_elements", "parse_elements", "done"} =>
          /\ Len(node_df.val) = Len(node_section.val)
          /\ node_df.val = TableOfNodes(node_section.val)
    /\ ppc = "done" =>
          /\ Len(elmt_df.val) = Len(element_section.val)
          /\ elmt_df.val = element_section.val

\* a node line that matches the pattern and whose three coordinates float() reads
WellFormedNodeLine(line) ==
    /\ node_pattern_match(line) # <<>>
    /\ \A c \in 2..4 : parse_float(node_pattern_match(line)[c]).ok

\* a line that matches the pattern with a coordinate float() refuses
MalformedNodeLine(line) ==
    /\ node_pattern_match(line) # <<>>
    /\ ~WellFormedNodeLine(line)

\* C7 (SpecParser): parse_nodes never raises on a malformed node line.  Once
\* parse_nodes has run the parse goes on, and the node table holds one typed
\* row for each well-formed line of the section, in order, and none for a
\* malformed line.
C7_MalformedNodeLineExcluded ==
    /\ ppc # "ValueError"
    /\ ppc \in {"extract_elements", "parse_elements", "done"} =>
          node_df = parse_nodes(SelectSeq(node_lines, WellFormedNodeLine))

\* a header line
IsHeader(line) == startswith(strip(line), STAR)

\* The section of keyword as the claim describes it: the lines after the first
\* header that is the keyword, up to the next header or blank line.
SectionOf(lines, keyword) ==
    LET heads == {n \in 1..Len(lines) : strip(lines[n]) = keyword}
        h == CHOOSE n \in heads : \A m \in heads : n <= m
        stops == {n \in (h + 1)..Len(lines) : IsHeader(lines[n]) \/ strip(lines[n]) = <<>>}
        e == IF stops = {} THEN Len(lines) + 1
             ELSE CHOOSE n \in stops : \A m \in stops : n <= m
    IN  IF heads = {} THEN <<>> ELSE SubSeq(lines, h + 1, e - 1)

\* C10 (SpecParser): extract(content, '*NODE') returns exactly the non-blank
\* lines that follow the *NODE header up to the next header or the first blank
\* line: nothing after a later header, nothing of another section.
C10_ExtractOneSection ==
    ppc = "parse_nodes" => node_lines = SectionOf(splitlines(content.val), KW_NODE)

-----------------------------------------------------------------------------
(* Claims about the generator (Spec)                                        *)

\* the divisibility check passes
Divisible == is_int(expl_dims[1], element_size) /\ is_int(expl_dims[2], element_size)

NoCutout == no_cutout(cutout_dims, cutout_offset)

\* round(extent / element_size) of the outer region, the explosive region, the
\* cutout's x-offset and the cutout's height
Nx == PyRound(outer_dims[1], element_size)
Ny == PyRound(outer_dims[2], element_size)
Nz == PyRound(outer_dims[3], element_size)
NxExpl == PyRound(expl_dims[1], element_size)
CutoutXIndex == PyRound(cutout_offset[1], element_size)
CutoutYIndex == PyRound(cutout_dims[2], element_size)

\* generate_nodes, add_constraints, generate_elements have returned
NodesMade == nodes.kind = "array"
ConstraintsMade == node_section.kind = "array"
ElementsMade == element_section.kind = "array"
\* generate_elements has run to its end or raised
ElementsTried == pc \in {"ValueError", "format_sections_into_file", "done"}

\* the grid index of a node row: its coordinates are multiples of element_size
IndexOfRow(row) ==
    << row[2] \div element_size, row[3] \div element_size, row[4] \div element_size >>

\* the cell of an element row: the grid index of its first vertex
CellOfElement(row) == IndexOfRow(node_section.val[row[3]])

\* C1: with cutout_dims and cutout_offset all zero and the divisibility check
\* passed, generate_nodes returns (nx+1)(ny+1)(nz+1) nodes and
\* generate_elements returns nx*ny*nz elements.
C1_FullGridCounts ==
    (NoCutout /\ Divisible) =>
        /\ pc # "generate_nodes" =>
              NodesMade /\ Len(nodes.val) = (Nx + 1) * (Ny + 1) * (Nz + 1)
        /\ ElementsTried =>
              ElementsMade /\ Len(element_section.val) = Nx * Ny * Nz

\* the tc the rules give a node at <<x, y, z>>: the last rule that applies
RuleTc(x, y, z) ==
    LET cx == IF NoCutout THEN outer_dims[1] ELSE cutout_offset[1]
        cy == IF NoCutout THEN outer_dims[2] ELSE cutout_dims[2]
    IN  IF \E f \in 1..Len(fixed_coords) : fixed_coords[f] = <<x, y, z>> THEN 7
        ELSE IF x = 0 \/ (x = cx /\ y < cy /\ x # outer_dims[1]) THEN 6
        ELSE IF y = 0 \/ (y = cy /\ x > cx /\ y # outer_dims[2]) THEN 5
        ELSE 3

\* C3: after add_constraints every node has the tc of the last rule that applies
\* to it (3; 5 on the bottom edge and on the cutout's top edge; 6 on the left
\* edge and on the cutout's left edge; 7 at a fixed coordinate) and rc = 7.
C3_ConstraintRules ==
    ConstraintsMade =>
        /\ Len(node_section.val) = Len(nodes.val)
        /\ \A n \in 1..Len(node_section.val) :
              LET row == node_section.val[n]
              IN  /\ SubSeq(row, 1, 4) = nodes.val[n]
                  /\ row[5] = RuleTc(row[2], row[3], row[4])
                  /\ row[6] = 7

\* C3's case: a node at x = 0, y = 0 that is not fixed and has tc 6, a fixed
\* node on an edge with tc 7, and a node on the cutout's top edge with tc 5.
C3_Witness ==
    /\ ConstraintsMade
    /\ ~NoCutout
    /\ \E n \in 1..Len(node_section.val) :
          LET row == node_section.val[n]
          IN  row[2] = 0 /\ row[3] = 0 /\ row[4] # 0 /\ row[5] = 6
    /\ \E n \in 1..Len(node_section.val) :
          LET row == node_section.val[n]
          IN  row[3] = 0 /\ row[2] = cutout_offset[1] /\ row[2] > 0 /\ row[5] = 7
    /\ \E n \in 1..Len(node_section.val) :
          LET row == node_section.val[n]
          IN  row[3] = cutout_dims[2] /\ row[2] > cutout_offset[1] /\ row[5] = 5

\* C4: an emitted element has part ID 2 exactly when the origin of its cell is
\* within the explosive region's extent on all three axes, and part ID 1 otherwise.
C4_PartIdOfCell ==
    ElementsMade =>
        \A n \in 1..Len(element_section.val) :
            LET row == element_section.val[n]
                origin == node_section.val[row[3]]
                inside == /\ origin[2] < expl_dims[1]
                          /\ origin[3] < expl_dims[2]
                          /\ origin[4] < expl_dims[3]
            IN  row[2] = IF inside THEN part_expl ELSE part_nonexpl

\* C5: the node list holds no two nodes with the same grid index, and the node
\* IDs are 1..N in emission order.
C5_NoDuplicateNode ==
    NodesMade =>
        /\ \A n \in 1..Len(nodes.val) : nodes.val[n][1] = n
        /\ \A n, m \in 1..Len(nodes.val) :
              IndexOfRow(nodes.val[n]) = IndexOfRow(nodes.val[m]) => n = m

\* C6: when the explosive region's x or y extent is no multiple of
\* element_size, main ends as a handled abort: no later stage runs on the
\* missing node list, nothing raises, and no file is written.
C6_HandledAbort ==
    ~Divisible =>
        /\ pc \in {"generate_nodes", "add_constraints", "aborted"}
        /\ nodes.kind \in {"unset", "None"}
        /\ content = None

\* the unit cells of the domain: the outer box minus the cutout
DomainCells ==
    {c \in (0..(Nx - 1)) \X (0..(Ny - 1)) \X (0..(Nz - 1)) :
        ~(c[1] >= CutoutXIndex /\ c[2] < CutoutYIndex)}

\* C8: with a non-zero cutout whose x-offset index is less than the explosive
\* region's x-extent index, generate_elements emits each unit cell of the
\* domain as exactly one element and nothing else.
C8_EachDomainCellOnce ==
    (~NoCutout /\ Divisible /\ CutoutXIndex < NxExpl /\ ElementsTried) =>
        /\ ElementsMade
        /\ \A n, m \in 1..Len(element_section.val) :
              SubSeq(element_section.val[n], 3, 10) = SubSeq(element_section.val[m], 3, 10)
                  => n = m
        /\ {CellOfElement(element_section.val[n]) : n \in 1..Len(element_section.val)}
              = DomainCells

\* a domain with a cutout, the explosive region in the part that is not cut
\* out and as deep as the outer region
WellFormed ==
    /\ ~NoCutout
    /\ Divisible
    /\ NxExpl <= CutoutXIndex
    /\ expl_dims[3] = outer_dims[3]

\* the cells that touch the cutout's re-entrant inner corner
CornerCells ==
    {c \in (0..Nx) \X (0..Ny) \X (0..Nz) :
        /\ c[1] \in {CutoutXIndex - 1, CutoutXIndex}
        /\ c[2] \in {CutoutYIndex - 1, CutoutYIndex}}

\* the cells inside the cutout
CutoutCells ==
    {c \in (0..Nx) \X (0..Ny) \X (0..Nz) : c[1] >= CutoutXIndex /\ c[2] < CutoutYIndex}

\* every element row names 8 nodes of the node list, and no dropped cell has
\* an element
NoPartialElement ==
    ElementsMade =>
        \A n \in 1..Len(element_section.val) :
            /\ Len(element_section.val[n]) = 10
            /\ \A v \in 3..10 : element_section.val[n][v] \in 1..Len(node_section.val)
            /\ CellOfElement(element_section.val[n]) \notin dropped

\* C9 as claimed: on a well-formed domain with a cutout a corner lookup misses
\* only for candidate cells that touch the cutout's re-entrant inner corner,
\* and a dropped cell contributes no partial element.
C9_MissOnlyAtCorner ==
    WellFormed => (dropped \subseteq CornerCells /\ NoPartialElement)

\* C9 as amended: on a well-formed domain with a cutout a corner lookup misses
\* only for candidate cells inside the cutout, and a dropped cell contributes
\* no partial element.
C9_MissOnlyInCutout ==
    WellFormed => (dropped \subseteq CutoutCells /\ NoPartialElement)

\* C9's case: elements were generated on a well-formed domain and a cell that
\* does not touch the inner corner was dropped.
C9_Witness ==
    /\ WellFormed
    /\ ElementsMade
    /\ dropped \ CornerCells # {}

=============================================================================
